---- MODULE Spec2Model ----
(***************************************************************************)
(* Hill-climbing Sudoku solver (src/src/hillclimbing.py).                  *)
(*                                                                         *)
(* A board is a tuple of 9 rows, each a tuple of 9 integers, as the        *)
(* Python list of lists; rows and columns are numbered 1..9 here, so an    *)
(* index of the model is the Python index plus one.                        *)
(***************************************************************************)
EXTENDS Integers, Sequences, FiniteSets, TLC

VARIABLES
    pc,                \* position of the program
    i,                 \* number of the current puzzle (the i + 1 the driver prints), 0 before the first
    puzzle,            \* the board the puzzle loop is working on
    error,             \* the exception raised last (kind "none": no exception)
    n,                 \* number of the current attempt (the n + 1 the driver prints)
    solution,          \* driver: board returned by the last hill_climbing call
    h,                 \* driver: conflict count returned by the last call
    iterations,        \* driver: iteration count returned by the last call
    solutionN,         \* driver: number of puzzles solved
    saved,             \* what save_solution_to_file wrote: <<puzzle number, board>> pairs
    results,           \* conflict counts returned by the attempts of the current puzzle
    current_board,     \* hill_climbing locals
    fixed_board,
    current_heuristic,
    max_iterations,
    iteration,
    recent_states,
    neighbors

vars == <<pc, i, puzzle, error, n, solution, h, iterations, solutionN, saved,
          results, current_board, fixed_board, current_heuristic,
          max_iterations, iteration, recent_states, neighbors>>

driver_vars == <<i, puzzle, error, n, solution, h, iterations, solutionN, saved, results>>
search_vars == <<current_board, fixed_board, current_heuristic, max_iterations,
                 iteration, recent_states, neighbors>>

(***************************************************************************)
(* Program constants.                                                      *)
(***************************************************************************)
N == 9                  \* side of the grid: range(9)
BoxSize == 3            \* side of a subgrid: range(0, 9, 3), range(3)
HistoryCapacity == 20   \* deque(maxlen=20)
MaxAttempts == 3        \* range(0, 3)

(***************************************************************************)
(* Bounds of the model.                                                    *)
(***************************************************************************)
MaxBlanks == 4          \* cells blanked in a puzzle handed to the driver
NumPuzzles == 2         \* puzzles the data folder holds at most
MaxEdits == 2           \* cells overwritten in a board handed to a pure function

Rows == 1..N
Digits == 1..N
NoBoard == <<>>         \* Python None / a name not yet bound
NoError == [kind |-> "none", index |-> 0]

SeqToSet(s) == {s[k] : k \in DOMAIN s}

(***************************************************************************)
(* Groups of a board.                                                      *)
(***************************************************************************)
Column(board, c) == [j \in Rows |-> board[j][c]]

\* the subgrid whose top-left cell is (box_row, box_col), read row by row
Subgrid(board, box_row, box_col) ==
    [k \in 1..(BoxSize * BoxSize) |->
        board[box_row + ((k - 1) \div BoxSize)][box_col + ((k - 1) % BoxSize)]]

\* top-left cell of the k-th subgrid in the order of the two nested loops
BoxRow(k) == BoxSize * ((k - 1) \div BoxSize) + 1
BoxCol(k) == BoxSize * ((k - 1) % BoxSize) + 1

(***************************************************************************)
(* validate_board                                                          *)
(***************************************************************************)
\* variant: the blanks are counted as digits
GroupRepeatsCountingBlanks(g) ==
    Cardinality(SeqToSet(g)) # Len(g)

\* len(set(g) - {0}) != len([num for num in g if num != 0])
GroupRepeats(g) ==
    Cardinality(SeqToSet(g) \ {0}) # Cardinality({k \in DOMAIN g : g[k] # 0})

RECURSIVE ValidateSubgrids(_, _)
ValidateSubgrids(board, k) ==
    IF k > N THEN NoError
    ELSE IF GroupRepeats(Subgrid(board, BoxRow(k), BoxCol(k)))
         THEN [kind |-> "subgrid", index |-> k]
         ELSE ValidateSubgrids(board, k + 1)

\* variant: all the rows are checked before the first column
RECURSIVE ValidateColumnsAfterRows(_, _)
ValidateColumnsAfterRows(board, k) ==
    IF k > N THEN ValidateSubgrids(board, 1)
    ELSE IF GroupRepeats(Column(board, k)) THEN [kind |-> "column", index |-> k]
    ELSE ValidateColumnsAfterRows(board, k + 1)

RECURSIVE ValidateRowsThenColumns(_, _)
ValidateRowsThenColumns(board, k) ==
    IF k > N THEN ValidateColumnsAfterRows(board, 1)
    ELSE IF GroupRepeats(board[k]) THEN [kind |-> "row", index |-> k]
    ELSE ValidateRowsThenColumns(board, k + 1)

RECURSIVE ValidateLines(_, _)
ValidateLines(board, k) ==
    IF k > N THEN ValidateSubgrids(board, 1)
    ELSE IF GroupRepeats(board[k]) THEN [kind |-> "row", index |-> k]
    ELSE IF GroupRepeats(Column(board, k)) THEN [kind |-> "column", index |-> k]
    ELSE ValidateLines(board, k + 1)

\* the ValueError raised, or NoError when the function returns True
validate_board(board) == ValidateLines(board, 1)

(***************************************************************************)
(* heuristic                                                               *)
(***************************************************************************)
Conflicts(g) == N - Cardinality(SeqToSet(g))

\* variant: the columns are not counted
RECURSIVE LineConflictsRowsOnly(_, _)
LineConflictsRowsOnly(board, k) ==
    IF k > N THEN 0
    ELSE Conflicts(board[k]) + LineConflictsRowsOnly(board, k + 1)

RECURSIVE LineConflicts(_, _)
LineConflicts(board, k) ==
    IF k > N THEN 0
    ELSE Conflicts(board[k]) + Conflicts(Column(board, k)) + LineConflicts(board, k + 1)

RECURSIVE SubgridConflicts(_, _)
SubgridConflicts(board, k) ==
    IF k > N THEN 0
    ELSE Conflicts(Subgrid(board, BoxRow(k), BoxCol(k))) + SubgridConflicts(board, k + 1)

\* variant: the subgrids are not counted
heuristicLinesOnly(board) == LineConflicts(board, 1)

heuristic(board) == LineConflicts(board, 1) + SubgridConflicts(board, 1)

\* float('inf'): above every value heuristic can return
Infinity == 3 * N * N

(***************************************************************************)
(* initialize_board                                                        *)
(***************************************************************************)
FixedMask(board) == [r \in Rows |-> [c \in Rows |-> board[r][c] # 0]]

\* non_fixed = [col for col in range(9) if not fixed_board[row][col]]
NonFixed(fixed, row) == SelectSeq([c \in Rows |-> c], LAMBDA c : ~fixed[row][c])

\* set(range(1, 10)) - set(board[row])
Available(board, row) == Digits \ SeqToSet(board[row])

\* the orders random.shuffle can leave a list of the elements of S in
Shuffles(S) ==
    {p \in [1..Cardinality(S) -> S] : \A a, b \in 1..Cardinality(S) : a # b => p[a] # p[b]}

\* for col in non_fixed: board[row][col] = available_numbers.pop()
FillRow(boardrow, non_fixed, shuffled) ==
    [c \in Rows |->
        IF \E k \in DOMAIN non_fixed : non_fixed[k] = c
        THEN shuffled[Len(shuffled) + 1 - (CHOOSE k \in DOMAIN non_fixed : non_fixed[k] = c)]
        ELSE boardrow[c]]

\* every way the nine shuffles can come out, one shuffled list per row
RECURSIVE ShuffleChoices(_, _)
ShuffleChoices(board, row) ==
    IF row > N THEN {<<>>}
    ELSE {<<p>> \o rest : p \in Shuffles(Available(board, row)),
                          rest \in ShuffleChoices(board, row + 1)}

\* the board returned; the mask returned is FixedMask(board)
initialize_board(board, shuffled) ==
    [r \in Rows |-> FillRow(board[r], NonFixed(FixedMask(board), r), shuffled[r])]

(***************************************************************************)
(* get_neighbors                                                           *)
(***************************************************************************)
\* variant: the second cell is copied into the first, not exchanged with it
OverwriteCell(board, row, a, b) ==
    [board EXCEPT ![row] = [@ EXCEPT ![a] = board[row][b]]]

SwapCells(board, row, a, b) ==
    [board EXCEPT ![row] = [@ EXCEPT ![a] = board[row][b], ![b] = board[row][a]]]

\* variant: the loop counters are used as the columns to swap
RECURSIVE RowNeighborsByPosition(_, _, _, _, _)
RowNeighborsByPosition(board, row, non_fixed, a, b) ==
    IF a > Len(non_fixed) THEN <<>>
    ELSE IF b > Len(non_fixed) THEN RowNeighborsByPosition(board, row, non_fixed, a + 1, a + 2)
    ELSE <<SwapCells(board, row, a, b)>>
         \o RowNeighborsByPosition(board, row, non_fixed, a, b + 1)

RECURSIVE RowNeighbors(_, _, _, _, _)
RowNeighbors(board, row, non_fixed, a, b) ==
    IF a > Len(non_fixed) THEN <<>>
    ELSE IF b > Len(non_fixed) THEN RowNeighbors(board, row, non_fixed, a + 1, a + 2)
    ELSE <<SwapCells(board, row, non_fixed[a], non_fixed[b])>>
         \o RowNeighbors(board, row, non_fixed, a, b + 1)

\* variant: a row with exactly two non-fixed cells is passed over
RECURSIVE NeighborsFromThree(_, _, _)
NeighborsFromThree(board, fixed, row) ==
    IF row > N THEN <<>>
    ELSE (IF Len(NonFixed(fixed, row)) > 2
          THEN RowNeighbors(board, row, NonFixed(fixed, row), 1, 2)
          ELSE <<>>)
         \o NeighborsFromThree(board, fixed, row + 1)

RECURSIVE NeighborsFrom(_, _, _)
NeighborsFrom(board, fixed, row) ==
    IF row > N THEN <<>>
    ELSE (IF Len(NonFixed(fixed, row)) > 1
          THEN RowNeighbors(board, row, NonFixed(fixed, row), 1, 2)
          ELSE <<>>)
         \o NeighborsFrom(board, fixed, row + 1)

get_neighbors(board, fixed) == NeighborsFrom(board, fixed, 1)

(***************************************************************************)
(* hill_climbing: the pieces of one pass of the while loop                 *)
(***************************************************************************)
\* neighbor in recent_states
InRecent(board, recent) == \E k \in DOMAIN recent : recent[k] = board

\* list.remove(x): drops the first element equal to x
RemoveFirst(list, x) ==
    LET first == CHOOSE k \in DOMAIN list :
                     list[k] = x /\ \A m \in 1..(k - 1) : list[m] # x
    IN  SubSeq(list, 1, first - 1) \o SubSeq(list, first + 1, Len(list))

\* The for loop of lines 123-130.  It walks the list by position while the
\* body removes from that same list: after a removal the elements behind
\* move one place forward and the next position read is one further on.
\* idx is the position about to be read; the result is the list as the loop
\* leaves it, with the best neighbour evaluated and its score.
RECURSIVE EvaluateNeighbors(_, _, _, _, _)
EvaluateNeighbors(list, idx, recent, next_board, next_heuristic) ==
    IF idx > Len(list)
    THEN [neighbors |-> list, next_board |-> next_board, next_heuristic |-> next_heuristic]
    ELSE IF InRecent(list[idx], recent)
         THEN EvaluateNeighbors(RemoveFirst(list, list[idx]), idx + 1, recent,
                                next_board, next_heuristic)
         ELSE IF heuristic(list[idx]) < next_heuristic
              THEN EvaluateNeighbors(list, idx + 1, recent, list[idx], heuristic(list[idx]))
              ELSE EvaluateNeighbors(list, idx + 1, recent, next_board, next_heuristic)

\* variant: a deque without maxlen
DequeAppendUnbounded(deque, x) == Append(deque, x)

\* deque(maxlen=20).append
DequeAppend(deque, x) ==
    IF Len(deque) < HistoryCapacity THEN Append(deque, x)
    ELSE Append(Tail(deque), x)

\* sum(row.count(0) for row in fixed_board): the cells whose mask is False
BlankSquares(fixed) == Cardinality({rc \in Rows \X Rows : ~fixed[rc[1]][rc[2]]})

MaxIterations(fixed) == 9 * (BlankSquares(fixed) * BlankSquares(fixed))

(***************************************************************************)
(* Inputs: the puzzles of the data folder.                                 *)
(***************************************************************************)
Edit(board, r, c, v) == [board EXCEPT ![r][c] = v]

\* a solved grid
Solved ==
    [r \in Rows |-> [c \in Rows |->
        ((((r - 1) % BoxSize) * BoxSize + ((r - 1) \div BoxSize) + (c - 1)) % N) + 1]]

\* Givens that repeat in no group, yet no completion: row 9 must take its 9
\* in column 2, which holds a 9 already.  Row 1 has two blanks: the search
\* has a single neighbour.
OneNeighbor == Edit(Edit(Edit(Edit(Solved, 9, 1, 1), 9, 2, 0), 1, 1, 0), 1, 2, 0)

\* The same givens with at most one blank in a row: the search has no
\* neighbour, and the filled board keeps its conflicts.
NoNeighbor == Edit(Edit(Edit(Solved, 9, 1, 1), 9, 2, 0), 1, 1, 0)

\* No completion either: rows 1 and 4 both need their 3 in column 2.  Two
\* rows of two blanks: the search has two neighbours.
TwoNeighbors == Edit(Edit(Edit(Edit(Edit(Solved, 1, 1, 2), 1, 2, 0), 1, 3, 0), 4, 1, 0), 4, 2, 0)

\* a repeated given in row 1 (and so in column 9 and in the top-right subgrid)
RowRepeat == Edit(Solved, 1, 9, 1)
\* a repeated given in column 1 and the top-left subgrid, in no row
ColumnRepeat == Edit(Edit(Solved, 3, 1, 1), 3, 4, 0)
\* a repeated given in the central subgrid only
SubgridRepeat == Edit(Edit(Edit(Solved, 5, 5, 5), 5, 1, 0), 1, 5, 0)

\* the cells blanked, in this order
BlankOrder == <<<<1, 1>>, <<1, 2>>, <<2, 1>>, <<2, 2>>, <<3, 1>>, <<3, 2>>, <<4, 1>>, <<4, 2>>>>

RECURSIVE Blank(_, _)
Blank(board, k) ==
    IF k = 0 THEN board
    ELSE Edit(Blank(board, k - 1), BlankOrder[k][1], BlankOrder[k][2], 0)

\* three blanks in one row
ThreeBlanks == Edit(Edit(Edit(Solved, 6, 4, 0), 6, 5, 0), 6, 6, 0)

PuzzleSet ==
    {Blank(Solved, k) : k \in 0..MaxBlanks}
        \cup {ThreeBlanks, NoNeighbor, OneNeighbor, TwoNeighbors}
        \cup {RowRepeat, ColumnRepeat, SubgridRepeat}

(***************************************************************************)
(* The driver (__main__) and hill_climbing as a state machine.             *)
(***************************************************************************)
Init ==
    /\ pc = "puzzles"
    /\ i = 0
    /\ puzzle = NoBoard
    /\ error = NoError
    /\ n = 0
    /\ solution = NoBoard
    /\ h = Infinity
    /\ iterations = 0
    /\ solutionN = 0
    /\ saved = <<>>
    /\ results = <<>>
    /\ current_board = NoBoard
    /\ fixed_board = NoBoard
    /\ current_heuristic = Infinity
    /\ max_iterations = 0
    /\ iteration = 0
    /\ recent_states = <<>>
    /\ neighbors = <<>>

\* for i, puzzle in enumerate(puzzles): the next file of the folder
NextPuzzle ==
    /\ pc = "puzzles"
    /\ i < NumPuzzles
    /\ \E p \in PuzzleSet : puzzle' = p
    /\ i' = i + 1
    /\ error' = NoError
    /\ pc' = "validate"
    /\ UNCHANGED <<n, solution, h, iterations, solutionN, saved, results>>
    /\ UNCHANGED search_vars

\* the folder holds no further file: the totals are printed and the run ends
EndPuzzles ==
    /\ pc = "puzzles"
    /\ pc' = "done"
    /\ UNCHANGED driver_vars
    /\ UNCHANGED search_vars

\* try: validate_board(puzzle) / except ValueError: ... continue
Validate ==
    /\ pc = "validate"
    /\ error' = validate_board(puzzle)
    /\ IF error'.kind # "none"
       THEN pc' = "puzzles" /\ UNCHANGED <<n, results>>
       ELSE pc' = "attempts" /\ n' = 0 /\ results' = <<>>
    /\ UNCHANGED <<i, puzzle, solution, h, iterations, solutionN, saved>>
    /\ UNCHANGED search_vars

\* variant: initialize_board fills the caller's board in place
StartAttemptWithoutCopy ==
    /\ pc = "attempts"
    /\ n < MaxAttempts
    /\ n' = n + 1
    /\ \E shuffled \in ShuffleChoices(puzzle, 1) :
          current_board' = initialize_board(puzzle, shuffled)
    /\ puzzle' = current_board'
    /\ fixed_board' = FixedMask(puzzle)
    /\ current_heuristic' = heuristic(current_board')
    /\ max_iterations' = MaxIterations(fixed_board')
    /\ iteration' = 0
    /\ recent_states' = <<>>
    /\ neighbors' = <<>>
    /\ pc' = "hc_while"
    /\ UNCHANGED <<i, error, solution, h, iterations, solutionN, saved, results>>

\* for n in range(0, 3): hill_climbing(puzzle) up to the while loop
StartAttempt ==
    /\ pc = "attempts"
    /\ n < MaxAttempts
    /\ n' = n + 1
    /\ \E shuffled \in ShuffleChoices(puzzle, 1) :
          current_board' = initialize_board(puzzle, shuffled)
    /\ fixed_board' = FixedMask(puzzle)
    /\ current_heuristic' = heuristic(current_board')
    /\ max_iterations' = MaxIterations(fixed_board')
    /\ iteration' = 0
    /\ recent_states' = <<>>
    /\ neighbors' = <<>>
    /\ pc' = "hc_while"
    /\ UNCHANGED <<i, puzzle, error, solution, h, iterations, solutionN, saved, results>>

\* the range is used up without a break
AttemptsExhausted ==
    /\ pc = "attempts"
    /\ n = MaxAttempts
    /\ pc' = "report"
    /\ UNCHANGED driver_vars
    /\ UNCHANGED search_vars

\* variant: the loop goes on to evaluate an empty neighbour list
LoopTestWithoutBreak ==
    /\ pc = "hc_while"
    /\ IF iteration < max_iterations
       THEN /\ neighbors' = get_neighbors(current_board, fixed_board)
            /\ pc' = "hc_evaluate"
       ELSE /\ pc' = "hc_return"
            /\ UNCHANGED neighbors
    /\ UNCHANGED <<current_board, fixed_board, current_heuristic, max_iterations,
                   iteration, recent_states>>
    /\ UNCHANGED driver_vars

\* while iteration < max_iterations: neighbors = get_neighbors(...); if not neighbors: break
LoopTest ==
    /\ pc = "hc_while"
    /\ IF iteration < max_iterations
       THEN /\ neighbors' = get_neighbors(current_board, fixed_board)
            /\ pc' = IF neighbors' = <<>> THEN "hc_return" ELSE "hc_evaluate"
       ELSE /\ pc' = "hc_return"
            /\ UNCHANGED neighbors
    /\ UNCHANGED <<current_board, fixed_board, current_heuristic, max_iterations,
                   iteration, recent_states>>
    /\ UNCHANGED driver_vars

\* variant: the board chosen at random keeps the score of the best evaluated
MoveWithoutRescore ==
    /\ pc = "hc_evaluate"
    /\ LET ev == EvaluateNeighbors(neighbors, 1, recent_states, NoBoard, Infinity)
           stuck == ev.next_board = NoBoard \/ ev.next_heuristic >= current_heuristic
       IN  /\ neighbors' = ev.neighbors
           /\ IF stuck /\ ev.neighbors = <<>>
              THEN /\ error' = [kind |-> "IndexError", index |-> 0]
                   /\ pc' = "raised"
                   /\ UNCHANGED <<current_board, current_heuristic, recent_states, iteration>>
              ELSE /\ \E next_board \in
                            (IF stuck THEN SeqToSet(ev.neighbors) ELSE {ev.next_board}) :
                         /\ current_board' = next_board
                         /\ current_heuristic' = ev.next_heuristic
                   /\ recent_states' = DequeAppend(recent_states, current_board')
                   /\ IF current_heuristic' = 0
                      THEN pc' = "hc_return" /\ UNCHANGED iteration
                      ELSE pc' = "hc_while" /\ iteration' = iteration + 1
                   /\ UNCHANGED error
    /\ UNCHANGED <<fixed_board, max_iterations>>
    /\ UNCHANGED <<i, puzzle, n, solution, h, iterations, solutionN, saved, results>>

\* lines 121-145: evaluate the neighbours, choose, move, record, test, count
Move ==
    /\ pc = "hc_evaluate"
    /\ LET ev == EvaluateNeighbors(neighbors, 1, recent_states, NoBoard, Infinity)
           stuck == ev.next_board = NoBoard \/ ev.next_heuristic >= current_heuristic
       IN  /\ neighbors' = ev.neighbors
           /\ IF stuck /\ ev.neighbors = <<>>
              THEN \* random.choice of an empty list
                   /\ error' = [kind |-> "IndexError", index |-> 0]
                   /\ pc' = "raised"
                   /\ UNCHANGED <<current_board, current_heuristic, recent_states, iteration>>
              ELSE /\ \E next_board \in
                            (IF stuck THEN SeqToSet(ev.neighbors) ELSE {ev.next_board}) :
                         /\ current_board' = next_board
                         /\ current_heuristic' =
                                IF stuck THEN heuristic(next_board) ELSE ev.next_heuristic
                   /\ recent_states' = DequeAppend(recent_states, current_board')
                   /\ IF current_heuristic' = 0
                      THEN pc' = "hc_return" /\ UNCHANGED iteration
                      ELSE pc' = "hc_while" /\ iteration' = iteration + 1
                   /\ UNCHANGED error
    /\ UNCHANGED <<fixed_board, max_iterations>>
    /\ UNCHANGED <<i, puzzle, n, solution, h, iterations, solutionN, saved, results>>

\* the locals of hill_climbing end with the call
NoLocals ==
    /\ current_board' = NoBoard
    /\ fixed_board' = NoBoard
    /\ current_heuristic' = Infinity
    /\ max_iterations' = 0
    /\ iteration' = 0
    /\ recent_states' = <<>>
    /\ neighbors' = <<>>

\* variant: the attempt loop has no break
ReturnWithoutBreak ==
    /\ pc = "hc_return"
    /\ solution' = current_board
    /\ h' = current_heuristic
    /\ iterations' = iteration
    /\ results' = Append(results, current_heuristic)
    /\ pc' = "attempts"
    /\ NoLocals
    /\ UNCHANGED <<i, puzzle, error, n, solutionN, saved>>

\* return current_board, current_heuristic, iteration; then if h == 0: break
Return ==
    /\ pc = "hc_return"
    /\ solution' = current_board
    /\ h' = current_heuristic
    /\ iterations' = iteration
    /\ results' = Append(results, current_heuristic)
    /\ pc' = IF h' = 0 THEN "report" ELSE "attempts"
    /\ NoLocals
    /\ UNCHANGED <<i, puzzle, error, n, solutionN, saved>>

\* if h == 0: save_solution_to_file(solution, i); solutionN += 1 / else: print
Report ==
    /\ pc = "report"
    /\ IF h = 0
       THEN /\ saved' = Append(saved, <<i, solution>>)
            /\ solutionN' = solutionN + 1
       ELSE UNCHANGED <<saved, solutionN>>
    /\ pc' = "puzzles"
    /\ UNCHANGED <<i, puzzle, error, n, solution, h, iterations, results>>
    /\ UNCHANGED search_vars

Next ==
    \/ NextPuzzle
    \/ EndPuzzles
    \/ Validate
    \/ StartAttempt
    \/ AttemptsExhausted
    \/ LoopTest
    \/ Move
    \/ Return
    \/ Report

Spec == Init /\ [][Next]_vars

(***************************************************************************)
(* The pure functions on their own: validate_board and heuristic applied   *)
(* to a board of integers 0..9.                                            *)
(***************************************************************************)
ZeroBoard == [r \in Rows |-> [c \in Rows |-> 0]]

\* the solved grid written with the digits 0..8: 0 stands where 9 stood
NineAsZero == [r \in Rows |-> [c \in Rows |-> IF Solved[r][c] = 9 THEN 0 ELSE Solved[r][c]]]

EditCells == {<<1, 1>>, <<2, 2>>, <<1, 4>>, <<4, 1>>}

RECURSIVE Edited(_, _)
Edited(board, m) ==
    IF m = 0 THEN {board}
    ELSE Edited(board, m - 1) \cup
         {Edit(b, cell[1], cell[2], v) : b \in Edited(board, m - 1), cell \in EditCells, v \in 0..N}

FnBoards == UNION {Edited(base, MaxEdits) : base \in {Solved, ZeroBoard, NineAsZero}}

FnInit ==
    /\ pc = "fn_input"
    /\ puzzle \in FnBoards
    /\ i = 0
    /\ error = NoError
    /\ n = 0
    /\ solution = NoBoard
    /\ h = Infinity
    /\ iterations = 0
    /\ solutionN = 0
    /\ saved = <<>>
    /\ results = <<>>
    /\ current_board = NoBoard
    /\ fixed_board = NoBoard
    /\ current_heuristic = Infinity
    /\ max_iterations = 0
    /\ iteration = 0
    /\ recent_states = <<>>
    /\ neighbors = <<>>

FnValidate ==
    /\ pc = "fn_input"
    /\ error' = validate_board(puzzle)
    /\ pc' = "fn_validated"
    /\ UNCHANGED <<i, puzzle, n, solution, h, iterations, solutionN, saved, results>>
    /\ UNCHANGED search_vars

FnHeuristic ==
    /\ pc = "fn_input"
    /\ h' = heuristic(puzzle)
    /\ pc' = "fn_scored"
    /\ UNCHANGED <<i, puzzle, error, n, solution, iterations, solutionN, saved, results>>
    /\ UNCHANGED search_vars

FnNext ==
    \/ FnValidate
    \/ FnHeuristic

FnSpec == FnInit /\ [][FnNext]_vars

(***************************************************************************)
(* hill_climbing alone, called from the attempt loop on a validated puzzle *)
(* with three blanks in one row (three neighbours, six fillings).  The     *)
(* history of such a search takes too many values to follow to the         *)
(* iteration limit: its first MaxMoves iterations are followed.            *)
(***************************************************************************)
MaxMoves == 6

\* The givens of OneNeighbor with three blanks in row 1: no completion.
ThreeNeighbors == Edit(OneNeighbor, 1, 3, 0)

WidePuzzles == {ThreeBlanks, ThreeNeighbors}

\* the driver has read and validated the puzzle; no attempt has run yet
SearchInit ==
    /\ pc = "attempts"
    /\ i = 1
    /\ puzzle \in WidePuzzles
    /\ error = NoError
    /\ n = 0
    /\ solution = NoBoard
    /\ h = Infinity
    /\ iterations = 0
    /\ solutionN = 0
    /\ saved = <<>>
    /\ results = <<>>
    /\ current_board = NoBoard
    /\ fixed_board = NoBoard
    /\ current_heuristic = Infinity
    /\ max_iterations = 0
    /\ iteration = 0
    /\ recent_states = <<>>
    /\ neighbors = <<>>

FirstMoves == iteration < MaxMoves /\ Move

SearchNext ==
    \/ StartAttempt
    \/ LoopTest
    \/ FirstMoves
    \/ Return

SearchSpec == SearchInit /\ [][SearchNext]_vars

(***************************************************************************)
(* Vocabulary of the properties: groups as sets of cells.                  *)
(***************************************************************************)
Cells == Rows \X Rows
At(board, rc) == board[rc[1]][rc[2]]

RowCells(r) == {r} \X Rows
ColumnCells(c) == Rows \X {c}
SubgridCells(k) ==
    (3 * ((k - 1) \div 3) + 1 .. 3 * ((k - 1) \div 3) + 3)
        \X (3 * ((k - 1) % 3) + 1 .. 3 * ((k - 1) % 3) + 3)

GroupCells ==
    {RowCells(r) : r \in Rows} \cup {ColumnCells(c) : c \in Rows}
        \cup {SubgridCells(k) : k \in Rows}

\* the group holds each digit 1-9 exactly once
EachDigitOnce(board, cells) ==
    \A d \in 1..9 : Cardinality({rc \in cells : At(board, rc) = d}) = 1

\* two cells of the group hold the same nonzero digit
TwoEqualGivens(board, cells) ==
    \E a, b \in cells : a # b /\ At(board, a) # 0 /\ At(board, a) = At(board, b)

\* no two cells of the group hold the same value
AllDifferent(board, cells) ==
    \A a, b \in cells : a # b => At(board, a) # At(board, b)

NoZero(board) == \A rc \in Cells : At(board, rc) # 0

\* every given of the puzzle is still in place
KeepsGivens(board, puz) ==
    \A rc \in Cells : At(puz, rc) # 0 => At(board, rc) = At(puz, rc)

IsSolutionOf(board, puz) ==
    /\ NoZero(board)
    /\ \A g \in GroupCells : EachDigitOnce(board, g)
    /\ KeepsGivens(board, puz)

BlanksOf(puz) == Cardinality({rc \in Cells : At(puz, rc) = 0})

InSearch == pc \in {"hc_while", "hc_evaluate", "hc_return"}

(***************************************************************************)
(* C1.  Soundness of a reported solution: whenever hill_climbing returns   *)
(* conflict count 0 for a validated puzzle, the board it returns has no 0, *)
(* has each digit 1-9 exactly once in every row, column and subgrid, and   *)
(* holds the puzzle's digit in every cell the puzzle gave.                 *)
(***************************************************************************)
C1_Soundness ==
    /\ (pc = "hc_return" /\ current_heuristic = 0) => IsSolutionOf(current_board, puzzle)
    /\ (pc = "report" /\ h = 0) => IsSolutionOf(solution, puzzle)

C1_Witness ==
    pc = "report" /\ h = 0 /\ iterations >= 1 /\ BlanksOf(puzzle) >= 4

(***************************************************************************)
(* C2.  Fixed cells never change: the mask marks exactly the puzzle's      *)
(* nonzero cells, and the board initialize_board returns, every candidate  *)
(* of get_neighbors, every current board of the search and the board       *)
(* returned hold the puzzle's digit in each of them.                       *)
(***************************************************************************)
C2_FixedCells ==
    /\ InSearch =>
          /\ \A rc \in Cells : At(fixed_board, rc) <=> (At(puzzle, rc) # 0)
          /\ KeepsGivens(current_board, puzzle)
          /\ \A k \in DOMAIN neighbors : KeepsGivens(neighbors[k], puzzle)
    /\ (pc \in {"attempts", "report"} /\ results # <<>>) => KeepsGivens(solution, puzzle)

C2_Witness ==
    /\ pc = "hc_evaluate"
    /\ iteration >= 1
    /\ \E r \in Rows : Cardinality({rc \in RowCells(r) : ~At(fixed_board, rc)}) = 3

(***************************************************************************)
(* C3.  Bounded termination: the while loop of hill_climbing makes at most *)
(* max_iterations = 9 x (non-fixed cells)^2 passes and then returns; the   *)
(* iteration count never exceeds max_iterations.  (As claimed: every call  *)
(* ends by returning.)                                                     *)
(***************************************************************************)
C3_BoundedTermination ==
    /\ InSearch =>
          /\ max_iterations = 9 * BlanksOf(puzzle) * BlanksOf(puzzle)
          /\ iteration <= max_iterations
    /\ (pc \in {"attempts", "report"} /\ results # <<>>) =>
          iterations <= 9 * BlanksOf(puzzle) * BlanksOf(puzzle)
    /\ pc # "raised"

(***************************************************************************)
(* C4.  The search loop never fails: in every pass in which get_neighbors  *)
(* returned a non-empty list a next board is chosen and the loop goes on   *)
(* or ends normally, even when the filter against recent_states removes    *)
(* every candidate.                                                        *)
(***************************************************************************)
C4_NoFailure ==
    [][(pc = "hc_evaluate" /\ neighbors # <<>>) =>
           (pc' \in {"hc_evaluate", "hc_while", "hc_return"} /\ error' = error)]_vars

(***************************************************************************)
(* C5.  validate_board raises if and only if some row, column or subgrid   *)
(* of the board holds two equal nonzero digits, and leaves the board as it *)
(* was in both cases.                                                      *)
(***************************************************************************)
C5_ValidateIff ==
    [][pc' = "fn_validated" =>
           /\ puzzle' = puzzle
           /\ (error'.kind # "none") <=> (\E g \in GroupCells : TwoEqualGivens(puzzle, g))]_vars

C5_Witness ==
    /\ pc = "fn_validated"
    /\ error.kind = "subgrid"
    /\ \E rc \in Cells : At(puzzle, rc) = 0

(***************************************************************************)
(* C6.  The group named in the error of validate_board really holds two    *)
(* equal nonzero digits and is the first such group in the order row 1,    *)
(* column 1, row 2, column 2, ..., row 9, column 9, then the subgrids; a   *)
(* repeat in row 1 is always reported as row 1.                            *)
(***************************************************************************)
CheckOrder ==
    [k \in 1..27 |->
        IF k > 18 THEN [kind |-> "subgrid", index |-> k - 18]
        ELSE IF k % 2 = 1 THEN [kind |-> "row", index |-> (k + 1) \div 2]
        ELSE [kind |-> "column", index |-> k \div 2]]

CellsOf(group) ==
    CASE group.kind = "row" -> RowCells(group.index)
      [] group.kind = "column" -> ColumnCells(group.index)
      [] group.kind = "subgrid" -> SubgridCells(group.index)

C6_FirstGroup ==
    (pc = "fn_validated") =>
        /\ error.kind # "none" =>
              \E k \in 1..27 :
                  /\ CheckOrder[k] = error
                  /\ TwoEqualGivens(puzzle, CellsOf(error))
                  /\ \A m \in 1..(k - 1) : ~TwoEqualGivens(puzzle, CellsOf(CheckOrder[m]))
        /\ TwoEqualGivens(puzzle, RowCells(1)) => error = [kind |-> "row", index |-> 1]

C6_Witness ==
    /\ pc = "fn_validated"
    /\ error = [kind |-> "column", index |-> 1]
    /\ \E r \in 2..9 : TwoEqualGivens(puzzle, RowCells(r))

(***************************************************************************)
(* C7.  Row invariant: for a validated puzzle the board initialize_board   *)
(* returns has each digit 1-9 exactly once in every row, and so has the    *)
(* current board after every pass of the loop.                             *)
(***************************************************************************)
C7_RowInvariant ==
    InSearch => \A r \in Rows : EachDigitOnce(current_board, RowCells(r))

C7_Witness ==
    pc = "hc_while" /\ iteration >= 2 /\ Len(recent_states) >= 2 /\ current_heuristic > 0

(***************************************************************************)
(* C8.  heuristic returns the sum over the 27 groups of 9 minus the number *)
(* of distinct values of the group.  As claimed: on every board of         *)
(* integers 0..9 it returns 0 exactly when every row, column and subgrid   *)
(* is a permutation of 1-9.  As amended: it returns 0 exactly when every   *)
(* group holds nine different values, which for a board without 0 is       *)
(* exactly when every group is a permutation of 1-9.                       *)
(***************************************************************************)
RECURSIVE GroupSum(_, _)
GroupSum(board, k) ==
    IF k = 0 THEN 0
    ELSE (9 - Cardinality({At(board, rc) : rc \in CellsOf(CheckOrder[k])}))
         + GroupSum(board, k - 1)

C8_Original ==
    (pc = "fn_scored") =>
        /\ h = GroupSum(puzzle, 27)
        /\ (h = 0) <=> (\A g \in GroupCells : EachDigitOnce(puzzle, g))

C8_HeuristicZero ==
    (pc = "fn_scored") =>
        /\ h = GroupSum(puzzle, 27)
        /\ (h = 0) <=> (\A g \in GroupCells : AllDifferent(puzzle, g))
        /\ NoZero(puzzle) => ((h = 0) <=> (\A g \in GroupCells : EachDigitOnce(puzzle, g)))

C8_Witness ==
    pc = "fn_scored" /\ h = 0 /\ ~NoZero(puzzle)

(***************************************************************************)
(* C9.  get_neighbors returns, for each row and each unordered pair of     *)
(* non-fixed columns of that row, exactly one candidate: the current board *)
(* with the two cells swapped and nothing else changed; it returns nothing *)
(* else, so the count is the sum over the rows of k(k-1)/2, the list is    *)
(* empty exactly when every row has at most one non-fixed cell, and the    *)
(* current board is left as it was.                                        *)
(***************************************************************************)
SwapPairs(fixed) ==
    {p \in Rows \X Rows \X Rows :
        p[2] < p[3] /\ ~fixed[p[1]][p[2]] /\ ~fixed[p[1]][p[3]]}

Swapped(board, p) ==
    [r \in Rows |-> [c \in Rows |->
        IF r = p[1] /\ c = p[2] THEN board[r][p[3]]
        ELSE IF r = p[1] /\ c = p[3] THEN board[r][p[2]]
        ELSE board[r][c]]]

NonFixedCount(fixed, r) == Cardinality({c \in Rows : ~fixed[r][c]})

RECURSIVE PairCount(_, _)
PairCount(fixed, r) ==
    IF r = 0 THEN 0
    ELSE (NonFixedCount(fixed, r) * (NonFixedCount(fixed, r) - 1)) \div 2
         + PairCount(fixed, r - 1)

NeighborsAsSpecified(board, fixed, list) ==
    /\ \A p \in SwapPairs(fixed) :
          Cardinality({k \in DOMAIN list : list[k] = Swapped(board, p)}) = 1
    /\ \A k \in DOMAIN list : \E p \in SwapPairs(fixed) : list[k] = Swapped(board, p)
    /\ Len(list) = PairCount(fixed, 9)
    /\ (list = <<>>) <=> (\A r \in Rows : NonFixedCount(fixed, r) <= 1)

C9_Neighbors ==
    [][(pc = "hc_while" /\ iteration < max_iterations) =>
           /\ NeighborsAsSpecified(current_board, fixed_board, neighbors')
           /\ current_board' = current_board]_vars

C9_Witness ==
    /\ pc = "hc_evaluate"
    /\ Len(neighbors) = 3
    /\ neighbors = get_neighbors(current_board, fixed_board)

(***************************************************************************)
(* C10.  Attempt orchestration: the attempts of a validated puzzle run one *)
(* after another, at most 3 of them; none is started after one returned    *)
(* conflict count 0; so when the attempt loop ends the result held is the  *)
(* last attempt's, and its conflict count is 0 if and only if some attempt *)
(* reached 0.                                                              *)
(***************************************************************************)
C10_Attempts ==
    /\ (InSearch \/ pc \in {"attempts", "report"}) =>
          /\ n <= 3
          /\ Len(results) = (IF InSearch THEN n - 1 ELSE n)
          /\ \A k \in 1..(Len(results) - 1) : results[k] # 0
    /\ InSearch => \A k \in DOMAIN results : results[k] # 0
    /\ pc = "attempts" => \A k \in DOMAIN results : results[k] # 0
    /\ pc = "report" =>
          /\ results # <<>>
          /\ h = results[Len(results)]
          /\ (h = 0) <=> (\E k \in DOMAIN results : results[k] = 0)

C10_Witness ==
    pc = "report" /\ h = 0 /\ n < 3 /\ Len(results) = n

(***************************************************************************)
(* C11.  hill_climbing works on its own copy: no step of an attempt        *)
(* changes the puzzle the driver holds, so every attempt starts from the   *)
(* puzzle as it was read, with its blanks; each attempt builds its own     *)
(* mask from that puzzle and starts with an empty history and count 0.     *)
(***************************************************************************)
C11_OwnCopy ==
    [][/\ (pc # "puzzles") => (puzzle' = puzzle)
       /\ (pc = "attempts" /\ pc' = "hc_while") =>
              /\ BlanksOf(puzzle') = BlanksOf(puzzle)
              /\ \A rc \in Cells : At(fixed_board', rc) <=> (At(puzzle, rc) # 0)
              /\ KeepsGivens(current_board', puzzle)
              /\ NoZero(current_board')
              /\ recent_states' = <<>>
              /\ iteration' = 0]_vars

\* a third attempt starts on a puzzle of four blanks after two that failed
C11_Witness ==
    /\ pc = "hc_while"
    /\ n = 3
    /\ Len(results) = 2
    /\ iteration = 0
    /\ recent_states = <<>>
    /\ BlanksOf(puzzle) = 4

(***************************************************************************)
(* C12.  NO_MOVES: for a puzzle with no row of two or more blanks the      *)
(* search never evaluates or adopts a neighbour: the board stays the one   *)
(* initialize_board made, the history stays empty, and hill_climbing       *)
(* returns that board with iteration count 0 and that board's conflict     *)
(* count.  For a puzzle with no blank the board returned is the puzzle and *)
(* the count is 0.                                                         *)
(***************************************************************************)
NoRowToSwap(puz) ==
    \A r \in Rows : Cardinality({c \in Rows : puz[r][c] = 0}) <= 1

C12_NoMoves ==
    [][(pc \in {"hc_while", "hc_return"} /\ NoRowToSwap(puzzle)) =>
           /\ iteration = 0
           /\ recent_states = <<>>
           /\ NoZero(current_board)
           /\ KeepsGivens(current_board, puzzle)
           /\ (pc = "hc_while") =>
                  /\ pc' = "hc_return"
                  /\ neighbors' = <<>>
                  /\ current_board' = current_board
                  /\ current_heuristic' = current_heuristic
           /\ (pc = "hc_return") =>
                  /\ solution' = current_board
                  /\ iterations' = 0
                  /\ h' = GroupSum(current_board, 27)
                  /\ (BlanksOf(puzzle) = 0) => (solution' = puzzle /\ h' = 0)]_vars

\* a puzzle of two blanks in two rows has returned a board with conflicts
C12_Witness ==
    /\ pc = "attempts"
    /\ n = 1
    /\ Len(results) = 1
    /\ NoRowToSwap(puzzle)
    /\ BlanksOf(puzzle) = 2
    /\ iterations = 0
    /\ h = GroupSum(solution, 27)
    /\ h > 0

(***************************************************************************)
(* Vocabulary of the search step: a step of Move reads the neighbour list  *)
(* as get_neighbors made it and the history as it stood before the move.   *)
(***************************************************************************)
Adopts == pc = "hc_evaluate" /\ pc' \in {"hc_while", "hc_return"}

InHistory(board) == \E k \in DOMAIN recent_states : recent_states[k] = board

\* positions of the neighbours that are not in the history
AbsentNeighbors == {k \in DOMAIN neighbors : ~InHistory(neighbors[k])}

ConflictCount(board) == GroupSum(board, 27)

(***************************************************************************)
(* C14.  History avoidance: in every iteration in which some neighbour of  *)
(* the current board is absent from recent_states, the board adopted,      *)
(* chosen as best or at random, equals no board of recent_states as it     *)
(* stood when the iteration began.                                         *)
(***************************************************************************)
C14_HistoryAvoidance ==
    [][(Adopts /\ AbsentNeighbors # {}) => ~InHistory(current_board')]_vars

(***************************************************************************)
(* C15.  Best-neighbour selection: whenever some neighbour absent from     *)
(* recent_states has a conflict count strictly lower than the current      *)
(* board's, the board adopted is the absent neighbour of lowest count, the *)
(* first in generation order on ties, and the current count decreases.     *)
(***************************************************************************)
C15_BestNeighbor ==
    [][(Adopts /\ \E k \in AbsentNeighbors :
                      ConflictCount(neighbors[k]) < current_heuristic) =>
           /\ \E k \in AbsentNeighbors :
                  /\ current_board' = neighbors[k]
                  /\ \A m \in AbsentNeighbors :
                         /\ ConflictCount(neighbors[k]) <= ConflictCount(neighbors[m])
                         /\ (m < k) => (ConflictCount(neighbors[k]) < ConflictCount(neighbors[m]))
           /\ current_heuristic' < current_heuristic]_vars

(***************************************************************************)
(* C16.  Bounded FIFO history: recent_states starts empty (the starting    *)
(* board is not put in it), every move appends the board adopted at the    *)
(* young end and, when 20 boards are held, drops the oldest; nothing else  *)
(* changes it.  So it holds at most 20 boards and is the last min(20, n)   *)
(* boards adopted, oldest first, n being the number of moves made.         *)
(***************************************************************************)
Least(a, b) == IF a < b THEN a ELSE b

C16_History ==
    [][/\ (pc = "attempts" /\ pc' = "hc_while") => (recent_states' = <<>>)
       /\ Adopts =>
              LET evicted == IF Len(recent_states) = 20 THEN 1 ELSE 0
              IN  /\ Len(recent_states') = Len(recent_states) + 1 - evicted
                  /\ recent_states'[Len(recent_states')] = current_board'
                  /\ \A k \in 1..(Len(recent_states') - 1) :
                         recent_states'[k] = recent_states[k + evicted]
       /\ (InSearch /\ ~Adopts /\ pc' \in {"hc_while", "hc_evaluate", "hc_return"}) =>
              (recent_states' = recent_states)
       /\ (pc' \in {"hc_while", "hc_evaluate"}) =>
              (Len(recent_states') = Least(20, iteration'))
       /\ (pc' = "hc_return") =>
              /\ Len(recent_states') <= 20
              /\ Len(recent_states') \in {Least(20, iteration'), Least(20, iteration' + 1)}]_vars

\* the history is full and boards have been evicted
C16_Witness ==
    /\ pc = "hc_while"
    /\ iteration > 25
    /\ Len(recent_states) = 20
    /\ recent_states[20] = current_board

(***************************************************************************)
(* C17.  A board with conflict count 0 is never left: from a current board *)
(* of count 0 the search evaluates no neighbour and goes to its return     *)
(* with the same board and the same iteration count; in particular a board *)
(* that initialize_board made with count 0 is returned with iteration      *)
(* count 0.                                                                *)
(***************************************************************************)
C17_StaysSolved ==
    [][(pc \in {"hc_while", "hc_evaluate"} /\ current_heuristic = 0) =>
           /\ pc' = "hc_return"
           /\ current_board' = current_board
           /\ current_heuristic' = 0
           /\ iteration' = iteration]_vars

(***************************************************************************)
(* C18.  Driver gating: a puzzle with a repeated given is skipped, with no *)
(* attempt and nothing saved, and the driver goes on to the next puzzle;   *)
(* for a validated puzzle a board is saved only by the report after an     *)
(* attempt that returned count 0, and it is the board of that attempt;     *)
(* otherwise the report saves nothing and goes on; nothing is raised.      *)
(***************************************************************************)
C18_Skipped ==
    (pc = "validate" /\ \E g \in GroupCells : TwoEqualGivens(puzzle, g)) =>
        /\ pc' = "puzzles"
        /\ error'.kind \in {"row", "column", "subgrid"}
        /\ UNCHANGED <<saved, solutionN, n, results, current_board, recent_states>>

C18_Saved ==
    /\ (saved' # saved) =>
           /\ pc = "report"
           /\ h = 0
           /\ results # <<>>
           /\ results[Len(results)] = 0
           /\ saved' = Append(saved, <<i, solution>>)
    /\ (pc = "report" /\ h # 0) => (saved' = saved /\ pc' = "puzzles")
    /\ (pc = "report" /\ h = 0) => (saved' # saved /\ pc' = "puzzles")

C18_DriverGating ==
    [][C18_Skipped /\ C18_Saved /\ pc' # "raised"]_vars

\* the gating alone, apart from the failure of C4
C18_GatingWithoutRaise ==
    [][C18_Skipped /\ C18_Saved]_vars

(***************************************************************************)
(* C19.  Score consistency: throughout hill_climbing the tracked           *)
(* current_heuristic is the conflict count of current_board, and the count *)
(* handed back with a board is the conflict count of that board, whether   *)
(* the search ended solved, exhausted or without moves.                    *)
(***************************************************************************)
C19_ScoreConsistency ==
    /\ InSearch => (current_heuristic = ConflictCount(current_board))
    /\ (pc \in {"attempts", "report"} /\ results # <<>>) =>
           /\ h = ConflictCount(solution)
           /\ results[Len(results)] = h

\* an attempt ended at the iteration limit with conflicts left
C19_Witness ==
    /\ pc = "hc_return"
    /\ iteration = max_iterations
    /\ iteration > 100
    /\ current_heuristic > 0
    /\ current_heuristic = ConflictCount(current_board)

====
